---- MODULE Spec2Model ----
(***************************************************************************)
(* Model of src/app.py (Acerte Licitacoes): the Streamlit session state    *)
(* (selected municipalities, saved searches, sidebar inputs, stored        *)
(* results), the sidebar handlers and the PNCP collection loop.            *)
(*                                                                         *)
(* Python lists are objects: st.session_state.selected_municipios and the  *)
(* "municipios" value of a saved search can be the SAME list.  The model   *)
(* keeps the lists in `heap` and stores list identifiers wherever the code *)
(* stores a reference.                                                     *)
(***************************************************************************)
EXTENDS Integers, Sequences, FiniteSets, TLC

VARIABLES
    heap,                 \* list identifier -> the list's entries
    selected_municipios,  \* st.session_state.selected_municipios (an identifier)
    saved_searches,       \* st.session_state.saved_searches: name -> payload
    sidebar_inputs,       \* st.session_state.sidebar_inputs
    card_page,            \* st.session_state.card_page
    page_size_cards,      \* st.session_state.page_size_cards
    results_df,           \* st.session_state.results_df: <<>> is None, <<rows>> a result
    results_signature,    \* st.session_state.results_signature: <<>> is None
    upstream,             \* what the PNCP search API holds for each municipality
    pc,                   \* position of the script: "idle" between runs, or inside the collection
    signature,            \* the signature coletar_por_assinatura is running on
    idx,                  \* position of `codigo` in signature["municipios"]
    pagina,               \* consultar_pncp_por_municipio: pagina
    out,                  \* consultar_pncp_por_municipio: out
    registros,            \* coletar_por_assinatura: registros
    pedidos,              \* history: the requests sent to BASE_API in this run
    falhas,               \* history: the municipalities whose collection raised in the last run
    avisos,               \* the messages the last script run showed to the user
    ultima,               \* history: the step that ran last, and the saved search it named
    salvo_em,             \* history: name -> what was current when it was last saved
    mostrado,             \* what the last script run rendered of the result pages: <<>> is nothing
    entrada,              \* the argument of the helper function under check: <<>> is none
    saida                 \* what the helper function returned for it: <<>> is not called yet

vars == <<heap, selected_municipios, saved_searches, sidebar_inputs, card_page,
          page_size_cards, results_df, results_signature, upstream, pc, signature,
          idx, pagina, out, registros, pedidos, falhas, avisos, ultima, salvo_em,
          mostrado, entrada, saida>>

sessao == <<heap, selected_municipios, saved_searches, sidebar_inputs, salvo_em>>
coleta == <<signature, idx, pagina, out, registros, pedidos, falhas>>
paginacao == <<card_page, page_size_cards>>
resultado == <<results_df, results_signature>>
funcoes == <<entrada, saida>>

----------------------------------------------------------------------------
(* Program constants *)

STATUS_LABELS ==
    << "A Receber/Recebendo Proposta", "Em Julgamento/Propostas Encerradas",
       "Encerradas", "Todos" >>

STATUS_MAP(label) ==
    CASE label = "A Receber/Recebendo Proposta"        -> "recebendo_proposta"
      [] label = "Em Julgamento/Propostas Encerradas"  -> "em_julgamento"
      [] label = "Encerradas"                          -> "encerrado"
      [] OTHER                                         -> ""

LimiteMunicipios == 25

PageSizeInicial == 10

----------------------------------------------------------------------------
(* Bounds of the model *)

\* tam_pagina of the collection (the parameter of consultar_pncp_por_municipio)
TamPagina == 2
\* the upstream holds at most this many pages for one municipality
MaxPaginas == 5
\* a search is modelled for selections of at most this many municipalities
MaxShards == 2
\* the raw URLs of the link helpers are made of at most this many segments and slashes
MaxSimbolos == 5
\* the titles, descriptions and keywords of the keyword filter have at most this many
\* characters
MaxTexto == 2

----------------------------------------------------------------------------
(* Sequence helpers *)

Range(s) == { s[i] : i \in 1..Len(s) }

RECURSIVE SelectSeqIdx(_, _)
\* the subsequence of s at the positions in I, in order
SelectSeqIdx(s, I) ==
    IF s = <<>> THEN <<>>
    ELSE LET n == Len(s)
             r == SelectSeqIdx(SubSeq(s, 1, n - 1), I)
         IN IF n \in I THEN Append(r, s[n]) ELSE r

----------------------------------------------------------------------------
(* Texts the code computes on are sequences of characters *)

Digitos == {"0", "1", "2", "3", "4", "5", "6", "7", "8", "9"}

\* str.isdigit
IsDigit(t) == t # <<>> /\ \A i \in 1..Len(t) : t[i] \in Digitos

StartsWith(t, prefixo) ==
    Len(t) >= Len(prefixo) /\ SubSeq(t, 1, Len(prefixo)) = prefixo

RECURSIVE LStrip(_, _)
\* str.lstrip(chars)
LStrip(t, chars) ==
    IF t # <<>> /\ t[1] \in chars THEN LStrip(Tail(t), chars) ELSE t

RECURSIVE RStrip(_, _)
\* str.rstrip(chars)
RStrip(t, chars) ==
    IF t # <<>> /\ t[Len(t)] \in chars THEN RStrip(SubSeq(t, 1, Len(t) - 1), chars) ELSE t

\* str.strip() of a text, on the blanks the model uses
StripTexto(t) == RStrip(LStrip(t, {" "}), {" "})

\* str.lower of one character, on the letters the model uses
LowerChar(c) ==
    CASE c = "A" -> "a"
      [] c = "B" -> "b"
      [] c = "L" -> "l"
      [] c = "O" -> "o"
      [] OTHER   -> c

\* str.lower of a text
Lower(t) == [i \in 1..Len(t) |-> LowerChar(t[i])]

RECURSIVE Replace(_, _, _)
\* str.replace(old, new) for a non-empty old: the occurrences are found from the left,
\* and the search goes on after the end of each one
Replace(t, old, new) ==
    IF Len(t) < Len(old) THEN t
    ELSE IF SubSeq(t, 1, Len(old)) = old
         THEN new \o Replace(SubSeq(t, Len(old) + 1, Len(t)), old, new)
         ELSE <<t[1]>> \o Replace(Tail(t), old, new)

----------------------------------------------------------------------------
(* Reference data: the rows of load_municipios_pncp() *)

\* _norm on the names the model uses: lower case, accents dropped,
\* every run of other characters replaced by "_"
_norm(s) ==
    CASE s = "Bom Jesus" -> "bom_jesus"
      [] s = "BOM JESUS" -> "bom_jesus"
      [] s = "Sumé"      -> "sume"
      [] OTHER           -> ""

\* str.upper on the UF values the model uses
Upper(u) ==
    CASE u = "pb" -> "PB"
      [] u = "pi" -> "PI"
      [] u = "rn" -> "RN"
      [] OTHER    -> u

pncp_df ==
    << [nome |-> "Bom Jesus", codigo_pncp |-> 101, uf |-> "PB", nome_norm |-> _norm("Bom Jesus")],
       [nome |-> "Bom Jesus", codigo_pncp |-> 102, uf |-> "pi", nome_norm |-> _norm("Bom Jesus")] >>

\* the (municipio, uf) rows the user can pick in "Adicionar município (IBGE)"
mun_options ==
    { <<"Bom Jesus", "PB">>, <<"BOM JESUS", "PI">>, <<"Bom Jesus", "RN">>, <<"Sumé", "PB">> }

----------------------------------------------------------------------------
(* _add_municipio_by_name *)

Codigos(sel) == [i \in 1..Len(sel) |-> sel[i].codigo_pncp]

\* line 616 with > for >=: the cap tested one entry late
LimiteAtingidoTardio(sel) == Len(sel) > LimiteMunicipios

\* line 616: the cap of the selection
LimiteAtingido(sel) == Len(sel) >= LimiteMunicipios

\* line 633 without the membership test
JaSelecionadoNunca(codigo, sel) == FALSE

\* line 633: the municipality is already selected
JaSelecionado(codigo, sel) == codigo \in Range(Codigos(sel))

\* lines 620-625: the candidate rows of pncp_df
Candidates(nome_municipio, uf) ==
    LET nome_norm == _norm(nome_municipio)
        porUf == IF uf # "" /\ uf # "Todos"
                 THEN { i \in 1..Len(pncp_df) : Upper(pncp_df[i].uf) = Upper(uf) }
                 ELSE 1..Len(pncp_df)
        c1 == SelectSeqIdx(pncp_df, { i \in porUf : pncp_df[i].nome_norm = nome_norm })
    IN IF c1 = <<>>
       THEN SelectSeqIdx(pncp_df, { i \in 1..Len(pncp_df) : pncp_df[i].nome_norm = nome_norm })
       ELSE c1

\* the list `sel` after _add_municipio_by_name(nome_municipio, uf, pncp_df)
AddMunicipio(nome_municipio, uf, sel) ==
    IF nome_municipio = "" THEN sel
    ELSE IF LimiteAtingido(sel) THEN sel
    ELSE LET candidates == Candidates(nome_municipio, uf)
         IN IF candidates = <<>> THEN sel
            ELSE LET row == candidates[1]
                 IN IF JaSelecionado(row.codigo_pncp, sel) THEN sel
                    ELSE Append(sel, [codigo_pncp |-> row.codigo_pncp,
                                      nome |-> row.nome, uf |-> row.uf])

\* which return of _add_municipio_by_name is taken
EfeitoDeAdd(nome_municipio, uf, sel) ==
    IF nome_municipio = "" THEN "sem_nome"
    ELSE IF LimiteAtingido(sel) THEN "limite"
    ELSE IF Candidates(nome_municipio, uf) = <<>> THEN "nao_localizado"
    ELSE IF JaSelecionado(Candidates(nome_municipio, uf)[1].codigo_pncp, sel) THEN "ja_selecionado"
    ELSE "adicionado"

----------------------------------------------------------------------------
(* Session state *)

ListIds == {"sel0", "a", "b"}

\* the values a user submits with the sidebar form
Forms ==
    { [palavra_chave |-> <<>>, status_label |-> STATUS_LABELS[1], uf |-> "Todos",
       enriquecer_valor |-> FALSE],
      [palavra_chave |-> <<"O", "b", "r", "a", " ">>, status_label |-> STATUS_LABELS[4], uf |-> "PB",
       enriquecer_valor |-> FALSE] }

\* the texts a user types in "Nome da pesquisa"
SaveNames == {"", "a"}

\* str.strip on the names of saved searches the model uses
Strip(s) == CASE s = " " -> "" [] OTHER -> s

Lista(n) == [i \in 1..n |-> [codigo_pncp |-> 200 + i, nome |-> "Mun" \o ToString(i), uf |-> "PB"]]

Payload(f, municipios) ==
    [palavra_chave |-> f.palavra_chave, status_label |-> f.status_label, uf |-> f.uf,
     municipios |-> municipios, enriquecer_valor |-> f.enriquecer_valor]

FormPadrao == CHOOSE f \in Forms : f.palavra_chave = <<>>
FormObra == CHOOSE f \in Forms : f.palavra_chave # <<>>

\* saved_searches.json as this program's own save writes it: name -> payload, the
\* "municipios" value written out
ArquivosProprios ==
    { <<>>,
      [n \in {"a", "b"} |->
          IF n = "a"
          THEN Payload(FormObra, <<[codigo_pncp |-> 101, nome |-> "Bom Jesus", uf |-> "PB"]>>)
          ELSE Payload(FormPadrao, <<>>)],
      [n \in {"a"} |-> Payload(FormPadrao, Lista(LimiteMunicipios - 1))],
      [n \in {"b"} |-> Payload(FormObra, Lista(LimiteMunicipios))] }

\* saved_searches.json holding a preset this program's save cannot have written
ArquivosExternos ==
    { [n \in {"a"} |-> Payload(FormPadrao, Lista(LimiteMunicipios + 1))] }

\* _load_saved_searches then _ensure_session_state: every list read from the file is a
\* list object of its own, and selected_municipios a new empty list
InitSessao(arquivo) ==
    /\ heap = [id \in ListIds |-> IF id \in DOMAIN arquivo THEN arquivo[id].municipios ELSE <<>>]
    /\ selected_municipios = "sel0"
    /\ saved_searches = [n \in DOMAIN arquivo |-> [arquivo[n] EXCEPT !.municipios = n]]
    /\ sidebar_inputs = [palavra_chave |-> <<>>, status_label |-> STATUS_LABELS[1],
                         uf |-> "Todos", enriquecer_valor |-> FALSE]
    /\ card_page = 1
    /\ page_size_cards = PageSizeInicial
    /\ results_df = <<>>
    /\ results_signature = <<>>
    /\ pc = "idle"
    /\ signature = <<>>
    /\ idx = 0
    /\ pagina = 0
    /\ out = <<>>
    /\ registros = <<>>
    /\ pedidos = <<>>
    /\ falhas = {}
    /\ avisos = {}
    /\ ultima = [op |-> "inicio", nome |-> ""]
    /\ salvo_em = <<>>
    /\ mostrado = <<>>

\* no helper function is under check
SemChamada == entrada = <<>> /\ saida = <<>>


\* the current selection, as a list
Selecao == heap[selected_municipios]

\* main, lines 693-701
Signature(si, sel) ==
    [municipios |-> Codigos(sel), status |-> STATUS_MAP(si.status_label),
     q |-> Lower(StripTexto(si.palavra_chave)), enriquecer |-> si.enriquecer_valor]

Max(a, b) == IF a >= b THEN a ELSE b
Min(a, b) == IF a <= b THEN a ELSE b

\* main, line 742
TotalPages(total_items, size) == Max(1, (total_items + size - 1) \div size)

\* a message of st.info, st.warning or st.error; `municipio` is the municipality it
\* names, 0 when it names none
Aviso(tipo, texto) == [tipo |-> tipo, texto |-> texto, municipio |-> 0]

\* lines 756-757 and 823-824 left out
ClampSemLimite(cp, total_pages) == cp

\* lines 756-757 and 823-824
Clamp(cp, total_pages) == IF cp > total_pages THEN total_pages ELSE cp

\* lines 752-757 and 819-824: card_page after the pair of buttons "Anterior", "Próxima"
AposClique(cp, prev_clicked, next_clicked, total_pages) ==
    LET a == IF prev_clicked THEN Max(1, cp - 1) ELSE cp
        b == IF next_clicked THEN Min(total_pages, a + 1) ELSE a
    IN Clamp(b, total_pages)

\* the buttons of the two pagination bars, and no button
Cliques == {"nenhum", "prev_top", "next_top", "prev_bottom", "next_bottom"}

\* lines 735-764 and 814-826 of one run over total_items rows: cp is card_page when the
\* run starts, `clique` the button that started it.  The header and the slice are
\* made after the top buttons, the footer after the bottom buttons
Paginas(cp, size, total_items, clique) ==
    LET total_pages == TotalPages(total_items, size)
        topo == AposClique(cp, clique = "prev_top", clique = "next_top", total_pages)
        rodape == AposClique(topo, clique = "prev_bottom", clique = "next_bottom", total_pages)
    IN [total_pages |-> total_pages,
        total_items |-> total_items,
        page_size_cards |-> size,
        cabecalho |-> topo,
        start |-> (topo - 1) * size,
        end |-> (topo - 1) * size + size,
        rodape |-> rodape,
        desabilitados |->
            (IF cp <= 1 THEN {"prev_top"} ELSE {})
            \cup (IF cp >= total_pages THEN {"next_top"} ELSE {})
            \cup (IF topo <= 1 THEN {"prev_bottom"} ELSE {})
            \cup (IF topo >= total_pages THEN {"next_bottom"} ELSE {})]

\* main, lines 712-826 of a run without "Pesquisar": the stored results are rendered
\* again, with page_size_cards = size and started by the button `clique`
Render(si, sel, size, clique) ==
    IF results_df = <<>>
    THEN /\ avisos' = {Aviso("info", "configure_os_filtros")}
         /\ mostrado' = <<>>
         /\ UNCHANGED card_page
    ELSE /\ avisos' = IF results_signature # <<>> /\ Signature(si, sel) # results_signature[1]
                      THEN {Aviso("warning", "filtros_alterados")}
                      ELSE {}
         /\ IF results_df[1] = <<>>
            THEN mostrado' = <<>> /\ UNCHANGED card_page
            ELSE LET p == Paginas(card_page, size, Len(results_df[1]), clique)
                 IN mostrado' = <<p>> /\ card_page' = p.rodape

\* a run started by no pagination button
RenderSemBusca(si, sel) == Render(si, sel, page_size_cards, "nenhum")

----------------------------------------------------------------------------
(* Sidebar handlers: one script run each *)

\* "➕ Adicionar município": _add_municipio_by_name, then st.rerun()
AdicionarMunicipio(opt, f) ==
    /\ pc = "idle"
    /\ heap' = [heap EXCEPT ![selected_municipios] = AddMunicipio(opt[1], opt[2], @)]
    /\ sidebar_inputs' = f
    /\ RenderSemBusca(f, heap'[selected_municipios])
    /\ ultima' = [op |-> "adicionar", nome |-> EfeitoDeAdd(opt[1], opt[2], Selecao)]
    /\ UNCHANGED <<selected_municipios, saved_searches, salvo_em, page_size_cards,
                   resultado, upstream, pc, coleta, funcoes>>

\* lines 561-568
Excluir(save_name, f) ==
    /\ pc = "idle"
    /\ LET name == Strip(save_name)
       IN IF name # "" /\ name \in DOMAIN saved_searches
          THEN /\ saved_searches' = [n \in DOMAIN saved_searches \ {name} |-> saved_searches[n]]
               /\ salvo_em' = [n \in DOMAIN salvo_em \ {name} |-> salvo_em[n]]
          ELSE UNCHANGED <<saved_searches, salvo_em>>
    /\ sidebar_inputs' = f
    /\ RenderSemBusca(f, Selecao)
    /\ ultima' = [op |-> "excluir", nome |-> Strip(save_name)]
    /\ UNCHANGED <<heap, selected_municipios, page_size_cards, resultado, upstream, pc, coleta, funcoes>>

\* lines 570-583: the payload keeps a reference to the selection list
Salvar(save_name, f) ==
    /\ pc = "idle"
    /\ LET name == Strip(save_name)
       IN IF name = ""
          THEN UNCHANGED <<saved_searches, salvo_em>>
          ELSE /\ saved_searches' =
                    [n \in DOMAIN saved_searches \cup {name} |->
                        IF n = name THEN Payload(f, selected_municipios) ELSE saved_searches[n]]
               /\ salvo_em' =
                    [n \in DOMAIN salvo_em \cup {name} |->
                        IF n = name THEN Payload(f, Selecao) ELSE salvo_em[n]]
    /\ sidebar_inputs' = f
    /\ RenderSemBusca(f, Selecao)
    /\ ultima' = [op |-> "salvar", nome |-> Strip(save_name)]
    /\ UNCHANGED <<heap, selected_municipios, page_size_cards, resultado, upstream, pc, coleta, funcoes>>

\* line 591
StatusLabelValido(label) ==
    IF label \in Range(STATUS_LABELS) THEN label ELSE STATUS_LABELS[1]

\* lines 585-597, then st.rerun(); sel is an entry of "Carregar pesquisa".  The
\* selection becomes the list of the payload itself, not a copy of it
Carregar(sel) ==
    /\ pc = "idle"
    /\ sel \in DOMAIN saved_searches
    /\ LET payload == saved_searches[sel]
           si == [palavra_chave |-> payload.palavra_chave,
                  status_label |-> StatusLabelValido(payload.status_label),
                  uf |-> payload.uf,
                  enriquecer_valor |-> payload.enriquecer_valor]
       IN /\ sidebar_inputs' = si
          /\ selected_municipios' = payload.municipios
          /\ RenderSemBusca(si, heap[payload.municipios])
    /\ ultima' = [op |-> "carregar", nome |-> sel]
    /\ UNCHANGED <<heap, saved_searches, salvo_em, page_size_cards, resultado, upstream, pc, coleta, funcoes>>

----------------------------------------------------------------------------
(* The pagination widgets: one script run each *)

\* line 737: the options of "Itens por página"
PageSizes == {10, 20, 50}

\* "Itens por página" is set to size: the widget writes page_size_cards (key of line
\* 739) and the script runs again
MudarItensPorPagina(size) ==
    /\ pc = "idle"
    /\ mostrado # <<>>
    /\ size # page_size_cards
    /\ page_size_cards' = size
    /\ Render(sidebar_inputs, Selecao, size, "nenhum")
    /\ ultima' = [op |-> "itens_por_pagina", nome |-> ""]
    /\ UNCHANGED <<sessao, resultado, upstream, pc, coleta, funcoes>>

\* "◀ Anterior" or "Próxima ▶" of the top or of the bottom bar is clicked; a button
\* can be clicked when the run that rendered it did not disable it
ClicarPagina(clique) ==
    /\ pc = "idle"
    /\ mostrado # <<>>
    /\ clique # "nenhum"
    /\ clique \notin mostrado[1].desabilitados
    /\ Render(sidebar_inputs, Selecao, page_size_cards, clique)
    /\ ultima' = [op |-> "pagina", nome |-> clique]
    /\ UNCHANGED <<sessao, page_size_cards, resultado, upstream, pc, coleta, funcoes>>

----------------------------------------------------------------------------
(* The upstream API and the JSON it answers with *)

\* a JSON value: [t |-> "list", v |-> <<...>>], [t |-> "dict", d |-> [key |-> value]],
\* [t |-> "str"] or [t |-> "null"]
JList(v) == [t |-> "list", v |-> v]
JDict(d) == [t |-> "dict", d |-> d]
JStr == [t |-> "str"]
JNull == [t |-> "null"]

ContainerKeys ==
    << "items", "results", "conteudo", "licitacoes", "data", "documents",
       "documentos", "content", "resultados" >>

RECURSIVE FirstKeyPresente(_, _)
\* lines 75-78 giving up at the first key that is present, a list or not
FirstKeyPresente(d, i) ==
    IF i > Len(ContainerKeys) THEN <<FALSE, <<>>>>
    ELSE IF ContainerKeys[i] \in DOMAIN d
         THEN IF d[ContainerKeys[i]].t = "list" THEN <<TRUE, d[ContainerKeys[i]].v>>
              ELSE <<FALSE, <<>>>>
         ELSE FirstKeyPresente(d, i + 1)

RECURSIVE FirstListKey(_, _)
\* lines 75-78: the value of the first key of ContainerKeys, from position i on, that is a list
FirstListKey(d, i) ==
    IF i > Len(ContainerKeys) THEN <<FALSE, <<>>>>
    ELSE IF ContainerKeys[i] \in DOMAIN d /\ d[ContainerKeys[i]].t = "list"
         THEN <<TRUE, d[ContainerKeys[i]].v>>
         ELSE FirstListKey(d, i + 1)

_items_from_json(js) ==
    IF js.t = "dict" /\ FirstListKey(js.d, 1)[1] THEN FirstListKey(js.d, 1)[2]
    ELSE IF js.t = "list" THEN js.v
    ELSE <<>>

\* payloads _items_from_json is checked on: lists, texts, null, and the mappings from
\* some of these keys to lists and to other values
ChavesJson == {"items", "conteudo", "data", "resultados", "total"}
ValoresJson == {JList(<<"x">>), JList(<<"y", "z">>), JList(<<>>), JStr, JNull}
PayloadsJson ==
    ValoresJson \cup { JDict(d) : d \in UNION { [K -> ValoresJson] : K \in SUBSET ChavesJson } }

\* the municipalities of the reference table
CodigosPncp == { pncp_df[i].codigo_pncp : i \in 1..Len(pncp_df) }

\* the most items the upstream holds for one municipality: its last page is a short one
MaxItens == MaxPaginas * TamPagina - 1

\* what the upstream can be for one municipality: it holds n items and answers every
\* page, or it answers the pages before `falha` in full and fails on page `falha`.
\* `comum` tells whether the items are listed under this municipality alone or under
\* every municipality of the same kind (a notice published for several of them)
EstadosUpstream ==
    { [n |-> k, falha |-> 0, comum |-> FALSE] : k \in 0..MaxItens }
    \cup { [n |-> MaxItens, falha |-> p, comum |-> FALSE] : p \in 1..MaxPaginas }

\* the upstream lists the same n items under every municipality in this state
EstadosComuns == { [n |-> k, falha |-> 0, comum |-> TRUE] : k \in 1..(TamPagina + 1) }

\* `n` of an upstream that answers every page in full: it takes no account of "pagina"
\* and always answers with its first tam_pagina items
SemFim == -1

EstadoSemFim == [n |-> SemFim, falha |-> 0, comum |-> FALSE]

\* whose items the upstream answers a request for municipality `codigo` with: 0 is
\* the notices listed under several municipalities
Origem(codigo) == IF upstream[codigo].comum THEN 0 ELSE codigo

\* the i-th item of page `pag` of municipality `codigo`, as the upstream holds it;
\* the search is ordered by "-data": later positions are older
ItemDe(codigo, pag, i) ==
    LET k == (pag - 1) * TamPagina + i
    IN [id |-> codigo * 100 + k,
        title |-> IF k % 2 = 1 THEN <<"O", "b", "r", "a">> ELSE <<"L", "i", "x", "o">>,
        description |-> IF k % 3 = 0 THEN <<"o", "b", "r", "a", "s">>
                        ELSE <<"g", "a", "r", "i">>,
        data_publicacao_pncp |-> 10000 - 10 * k - (codigo % 10)]

\* the items of page `pag` of a municipality the upstream holds `total` items of
ItensDaPagina(codigo, pag, total) ==
    [i \in 1..Max(0, Min(TamPagina, total - (pag - 1) * TamPagina)) |-> ItemDe(codigo, pag, i)]

\* the items the upstream answers page `pag` of municipality `codigo` with
ItensDoUpstream(codigo, pag) ==
    IF upstream[codigo].n = SemFim
    THEN ItensDaPagina(Origem(codigo), 1, TamPagina)
    ELSE ItensDaPagina(Origem(codigo), pag, upstream[codigo].n)

\* what requests.get of page `pag` of municipality `codigo` can come to
Respostas(codigo, pag) ==
    IF upstream[codigo].falha = pag
    THEN { [tipo |-> "erro_rede"], [tipo |-> "http_erro"],
           [tipo |-> "corpo_vazio", status |-> 200], [tipo |-> "corpo_vazio", status |-> 204] }
    ELSE LET itens == ItensDoUpstream(codigo, pag)
         IN { [tipo |-> "json", js |-> JDict([k \in {"items"} |-> JList(itens)])],
              [tipo |-> "json", js |-> JList(itens)],
              [tipo |-> "json", js |-> JDict([k \in {"total", "data"} |->
                                               IF k = "data" THEN JList(itens) ELSE JStr])] }
              \cup (IF itens = <<>>
                    THEN { [tipo |-> "json", js |-> JDict([k \in {"message"} |-> JStr])],
                           [tipo |-> "json", js |-> JNull] }
                    ELSE {})

\* lines 225-227: requests.get, raise_for_status and r.json() raise
RespostaLevanta(resp) == resp.tipo \in {"erro_rede", "http_erro", "corpo_vazio"}

----------------------------------------------------------------------------
(* montar_registro and the filter and sort of coletar_por_assinatura *)

montar_registro(item, municipio_codigo) ==
    [municipio_codigo |-> municipio_codigo,
     Titulo |-> item.title,
     Objeto |-> item.description,
     _pub_raw |-> item.data_publicacao_pncp,
     _id |-> item.id]

\* re.match of the pattern q at position i of texto, case ignored.  A pattern is made
\* of letters and blanks, which stand for themselves, and of ".", which stands for any
\* one character
CasaEm(texto, q, i) ==
    /\ i + Len(q) - 1 <= Len(texto)
    /\ \A j \in 1..Len(q) :
         q[j] = "." \/ LowerChar(q[j]) = LowerChar(texto[i + j - 1])

\* Series.str.contains(q, case=False, na=False): regex is True by default, so q is
\* searched as a regular expression
Contains(texto, q) == \E i \in 1..(Len(texto) + 1) : CasaEm(texto, q, i)

\* lines 359-362: the mask of one row
Mascara(row, q) == Contains(row.Titulo, q) \/ Contains(row.Objeto, q)

\* lines 357-363
FiltrarPorPalavra(df, q) ==
    IF StripTexto(q) # <<>> /\ df # <<>>
    THEN SelectSeqIdx(df, { i \in 1..Len(df) : Mascara(df[i], StripTexto(q)) })
    ELSE df

\* the texts over an alphabet, up to MaxTexto characters
Textos(alfabeto) == UNION { [1..n -> alfabeto] : n \in 0..MaxTexto }

\* what the keyword filter is checked on: a frame of two records, the second a fixed
\* one, and a keyword as the signature holds it (stripped, in lower case)
EntradasFiltro ==
    { [f |-> "filtro",
       df |-> << [Titulo |-> t, Objeto |-> o, _id |-> 1],
                 [Titulo |-> <<"a", "b">>, Objeto |-> <<>>, _id |-> 2] >>,
       q |-> q] :
        t \in Textos({"a", "b", "A"}), o \in Textos({"a", "b", "A"}),
        q \in Textos({"a", "b", "."}) }

RECURSIVE Inserir(_, _)
\* r put into the list s that is sorted by _pub_raw, newest first
Inserir(s, r) ==
    IF s = <<>> THEN <<r>>
    ELSE IF s[Len(s)]._pub_raw >= r._pub_raw THEN Append(s, r)
    ELSE Append(Inserir(SubSeq(s, 1, Len(s) - 1), r), s[Len(s)])

RECURSIVE SortPorData(_)
\* line 369: sort_values("_pub_dt", ascending=False)
SortPorData(df) ==
    IF df = <<>> THEN <<>>
    ELSE Inserir(SortPorData(SubSeq(df, 1, Len(df) - 1)), df[Len(df)])

\* lines 355-370 (the enrichment of lines 372-380 is off in every form of the model)
Finalizar(regs, sig) == SortPorData(FiltrarPorPalavra(regs, sig.q))

----------------------------------------------------------------------------
(* "Pesquisar": main, lines 703-711, coletar_por_assinatura and
   consultar_pncp_por_municipio.  st.cache_data replays the result of an earlier
   run with the same signature; the model runs the function on every search. *)

AvisoSemMunicipio == Aviso("warning", "selecione_municipio")

\* line 704 without the test of the empty selection
SemMunicipioNunca(sig) == FALSE

\* line 704
SemMunicipio(sig) == sig.municipios = <<>>

\* lines 722-725 after a collection
AvisosDoResultado(df) ==
    IF df = <<>> THEN {Aviso("info", "nenhum_resultado")} ELSE {}

\* "🔍 Pesquisar" is submitted with the form f
Pesquisar(f) ==
    /\ pc = "idle"
    /\ Len(Selecao) <= MaxShards
    /\ sidebar_inputs' = f
    /\ ultima' = [op |-> "pesquisar", nome |-> ""]
    /\ LET sig == Signature(f, Selecao)
       IN IF SemMunicipio(sig)
          THEN \* lines 704-706: st.stop()
               /\ avisos' = {AvisoSemMunicipio}
               /\ UNCHANGED <<resultado, paginacao, pc, coleta>>
          ELSE /\ pc' = IF sig.municipios = <<>> THEN "fim" ELSE "coleta"
               /\ signature' = sig
               /\ idx' = 1
               /\ pagina' = 1
               /\ out' = <<>>
               /\ registros' = <<>>
               /\ pedidos' = <<>>
               /\ falhas' = {}
               /\ avisos' = {}
               /\ UNCHANGED <<resultado, paginacao>>
    /\ mostrado' = <<>>
    /\ UNCHANGED <<heap, selected_municipios, saved_searches, salvo_em, upstream, funcoes>>

\* line 351 keeping the pages collected before the exception
ItensAposFalhaParciais(parcial) == parcial

\* line 351: itens = [], whatever the pages before brought
ItensAposFalha(parcial) == <<>>

\* line 237 stepping by two
ProximaPaginaSalta(pag) == pag + 2

\* line 237
ProximaPagina(pag) == pag + 1

\* line 234
PaginaCurta(itens, tam_pagina) == Len(itens) < tam_pagina

\* the loop has gone past the pages of every upstream that holds finitely many items:
\* from here on the model keeps only whether `pagina` is odd or even, and records no
\* more requests and items, so that a loop without end is a cycle of finitely many states
AlemDoFim(pag) == pag > MaxPaginas

\* line 237 past MaxPaginas
PaginaDobrada(pag) == IF pag = MaxPaginas + 1 THEN MaxPaginas + 2 ELSE MaxPaginas + 1

\* lines 352-353: the items of a municipality become records
Registrar(regs, itens, codigo) ==
    regs \o [i \in 1..Len(itens) |-> montar_registro(itens[i], codigo)]

\* the collection of municipality signature.municipios[idx] has ended with `itens`
\* (lines 349-353), and the loop of line 347 goes on
FimDoShard(itens) ==
    /\ registros' = Registrar(registros, itens, signature.municipios[idx])
    /\ out' = <<>>
    /\ pagina' = 1
    /\ IF idx < Len(signature.municipios)
       THEN idx' = idx + 1 /\ pc' = "coleta"
       ELSE idx' = idx /\ pc' = "fim"

\* one turn of the loop of consultar_pncp_por_municipio (lines 214-238), answered by resp
BuscarPagina(resp) ==
    /\ pc = "coleta"
    /\ LET codigo == signature.municipios[idx]
       IN /\ pedidos' = IF AlemDoFim(pagina) THEN pedidos
                         ELSE Append(pedidos,
                                [municipio |-> codigo, pagina |-> pagina, tipo |-> resp.tipo,
                                 n |-> IF resp.tipo = "json" THEN Len(_items_from_json(resp.js))
                                       ELSE 0])
          /\ IF RespostaLevanta(resp)
             THEN \* lines 350-351: except Exception: itens = []
                  /\ falhas' = falhas \cup {codigo}
                  /\ FimDoShard(ItensAposFalha(out))
             ELSE LET itens == _items_from_json(resp.js)
                  IN /\ UNCHANGED falhas
                     /\ IF itens = <<>>
                        THEN FimDoShard(out)
                        ELSE IF PaginaCurta(itens, TamPagina)
                        THEN FimDoShard(out \o itens)
                        ELSE /\ out' = IF AlemDoFim(pagina) THEN out ELSE out \o itens
                             /\ pagina' = IF AlemDoFim(pagina) THEN PaginaDobrada(pagina)
                                          ELSE ProximaPagina(pagina)
                             /\ UNCHANGED <<pc, idx, registros>>
    /\ ultima' = [op |-> "buscar", nome |-> ""]
    /\ UNCHANGED <<sessao, resultado, paginacao, upstream, signature, avisos, mostrado, funcoes>>

\* the end of coletar_por_assinatura (lines 355-381) and main, lines 709-725
Concluir ==
    /\ pc = "fim"
    /\ LET df == Finalizar(registros, signature)
       IN /\ results_df' = <<df>>
          /\ results_signature' = <<signature>>
          /\ avisos' = AvisosDoResultado(df)
          /\ IF df = <<>>
             THEN card_page' = 1 /\ mostrado' = <<>>
             ELSE LET p == Paginas(1, page_size_cards, Len(df), "nenhum")
                  IN mostrado' = <<p>> /\ card_page' = p.rodape
    /\ pc' = "idle"
    /\ signature' = <<>>
    /\ idx' = 0
    /\ pagina' = 0
    /\ out' = <<>>
    /\ registros' = <<>>
    /\ pedidos' = <<>>
    /\ ultima' = [op |-> "concluir", nome |-> ""]
    /\ UNCHANGED <<sessao, page_size_cards, upstream, falhas, funcoes>>

----------------------------------------------------------------------------
(* _full_url and _build_pncp_link *)

\* line 40
ORIGIN ==
    <<"h", "t", "t", "p", "s", ":", "/", "/", "p", "n", "c", "p", ".", "g", "o", "v", ".", "b", "r">>

Http == <<"h", "t", "t", "p">>
Barra == <<"/">>
SegApp == <<"a", "p", "p">>
SegCompras == <<"c", "o", "m", "p", "r", "a", "s">>
SegEditais == <<"e", "d", "i", "t", "a", "i", "s">>
\* "/app/compras/", "/compras/" and "/app/editais/"
AppCompras == Barra \o SegApp \o Barra \o SegCompras \o Barra
Compras == Barra \o SegCompras \o Barra
AppEditais == Barra \o SegApp \o Barra \o SegEditais \o Barra

\* lines 94-99
_full_url(item_url) ==
    IF item_url = <<>> THEN <<>>
    ELSE IF StartsWith(item_url, Http) THEN item_url
    ELSE RStrip(ORIGIN, {"/"}) \o Barra \o LStrip(item_url, {"/"})

\* line 109 without the test of the year
TemIdentificadoresSemAno(cnpj, ano, seq) == Len(cnpj) = 14 /\ seq # <<>>

\* line 109
TemIdentificadores(cnpj, ano, seq) == Len(cnpj) = 14 /\ IsDigit(ano) /\ seq # <<>>

\* line 113
Reescrever(url) == Replace(Replace(url, AppCompras, AppEditais), Compras, AppEditais)

\* lines 101-114.  An item is a record of texts; the empty text stands for a key that
\* is absent, None or "", which the code treats alike (`or ""`)
_build_pncp_link(item) ==
    LET cnpj == StripTexto(item.orgao_cnpj)
        ano == StripTexto(item.ano)
        seq == StripTexto(item.numero_sequencial)
        raw == IF item.item_url # <<>> THEN item.item_url ELSE item.url
    IN IF TemIdentificadores(cnpj, ano, seq)
       THEN ORIGIN \o AppEditais \o cnpj \o Barra \o ano \o Barra \o seq
       ELSE Reescrever(_full_url(raw))

\* which return of _build_pncp_link is taken: "modelo" is line 110, "fallback" line 114
RetornoDoLink(item) ==
    IF TemIdentificadores(StripTexto(item.orgao_cnpj), StripTexto(item.ano),
                          StripTexto(item.numero_sequencial))
    THEN "modelo" ELSE "fallback"

\* the items _build_pncp_link is checked on
Cnpj14 == <<"1", "2", "3", "4", "5", "6", "7", "8", "0", "0", "0", "1", "9", "5">>
Cnpjs ==
    { <<>>, Cnpj14, <<" ">> \o Cnpj14 \o <<" ">>, SubSeq(Cnpj14, 1, 13),
      SubSeq(Cnpj14, 1, 13) \o <<"X">> }
Anos == { <<>>, <<"2", "0", "2", "4">>, <<"2", "4">>, <<"2", "o", "2", "4">> }
Sequenciais == { <<>>, <<"7">>, <<" ">> }

RECURSIVE Junta(_)
\* the texts of a sequence, joined
Junta(ts) == IF ts = <<>> THEN <<>> ELSE ts[1] \o Junta(Tail(ts))

\* relative and absolute raw URLs made of slashes and of the segments app, compras, x
RawUrls ==
    LET simbolos == {Barra, SegApp, SegCompras, <<"x">>}
        caminhos == { Junta(ts) : ts \in UNION { [1..n -> simbolos] : n \in 0..MaxSimbolos } }
    IN caminhos \cup { ORIGIN \o c : c \in caminhos }

Item(cnpj, ano, seq, item_url, url) ==
    [orgao_cnpj |-> cnpj, ano |-> ano, numero_sequencial |-> seq, item_url |-> item_url,
     url |-> url]

ItensLink ==
    { Item(c, a, q, u, v) :
        c \in Cnpjs, a \in Anos, q \in Sequenciais,
        u \in {<<>>, Compras \o <<"x">>}, v \in {<<>>, AppCompras \o <<"x">>} }
    \cup { Item(<<>>, <<>>, <<>>, u, <<>>) : u \in RawUrls }
    \cup { Item(Cnpj14, <<>>, <<"7">>, <<>>, v) : v \in RawUrls }

----------------------------------------------------------------------------
(* Specifications *)

\* the upstream of the sessions of Spec: it fails for one municipality
UpstreamsDaSessao ==
    { [c \in CodigosPncp |-> IF c = 101 THEN [n |-> MaxItens, falha |-> 1, comum |-> FALSE]
                              ELSE [n |-> TamPagina + 1, falha |-> 0, comum |-> FALSE]] }

Init ==
    /\ \E arquivo \in ArquivosProprios : InitSessao(arquivo)
    /\ upstream \in UpstreamsDaSessao
    /\ SemChamada

InitExterno ==
    /\ \E arquivo \in ArquivosExternos : InitSessao(arquivo)
    /\ upstream \in UpstreamsDaSessao
    /\ SemChamada

InitColeta ==
    /\ InitSessao(<<>>)
    /\ upstream \in [CodigosPncp -> EstadosUpstream]
    /\ SemChamada

\* upstreams that list notices under several municipalities
InitComuns ==
    /\ InitSessao(<<>>)
    /\ upstream \in [CodigosPncp -> EstadosComuns \cup {[n |-> 1, falha |-> 0, comum |-> FALSE]}]
    /\ SemChamada

\* upstreams that hold one item or as many as they can for a municipality
InitPaginas ==
    /\ InitSessao(<<>>)
    /\ upstream \in [CodigosPncp -> {[n |-> 1, falha |-> 0, comum |-> FALSE],
                                      [n |-> MaxItens, falha |-> 0, comum |-> FALSE]}]
    /\ SemChamada

\* upstreams that hold finitely many items, fail, or answer every page in full
InitSemFim ==
    /\ InitSessao(<<>>)
    /\ upstream \in [CodigosPncp -> {EstadoSemFim, [n |-> TamPagina + 1, falha |-> 0, comum |-> FALSE],
                                      [n |-> MaxItens, falha |-> 2, comum |-> FALSE]}]
    /\ SemChamada

\* the arguments the helper functions are checked on
Entradas ==
    { [f |-> "_items_from_json", js |-> js] : js \in PayloadsJson }
    \cup { [f |-> "_build_pncp_link", item |-> item] : item \in ItensLink }
    \cup EntradasFiltro

InitFuncoes ==
    /\ InitSessao(<<>>)
    /\ upstream \in UpstreamsDaSessao
    /\ entrada \in Entradas
    /\ saida = <<>>

\* a call of _items_from_json(entrada.js)
Chamar_items_from_json ==
    /\ entrada.f = "_items_from_json"
    /\ saida = <<>>
    /\ saida' = <<_items_from_json(entrada.js)>>
    /\ UNCHANGED <<sessao, paginacao, resultado, upstream, pc, coleta, avisos, ultima,
                   mostrado, entrada>>

\* a call of _build_pncp_link(entrada.item): the URL returned, and the return taken
Chamar_build_pncp_link ==
    /\ entrada.f = "_build_pncp_link"
    /\ saida = <<>>
    /\ saida' = <<_build_pncp_link(entrada.item), RetornoDoLink(entrada.item)>>
    /\ UNCHANGED <<sessao, paginacao, resultado, upstream, pc, coleta, avisos, ultima,
                   mostrado, entrada>>

\* lines 357-363 of coletar_por_assinatura on the frame entrada.df
ChamarFiltro ==
    /\ entrada.f = "filtro"
    /\ saida = <<>>
    /\ saida' = <<FiltrarPorPalavra(entrada.df, entrada.q)>>
    /\ UNCHANGED <<sessao, paginacao, resultado, upstream, pc, coleta, avisos, ultima,
                   mostrado, entrada>>

NextFuncoes ==
    \/ Chamar_items_from_json
    \/ Chamar_build_pncp_link
    \/ ChamarFiltro

Busca ==
    \/ \E f \in Forms : Pesquisar(f)
    \/ /\ pc = "coleta"
       /\ \E resp \in Respostas(signature.municipios[idx], pagina) : BuscarPagina(resp)
    \/ Concluir

Next ==
    \/ \E opt \in mun_options, f \in Forms : AdicionarMunicipio(opt, f)
    \/ \E n \in SaveNames, f \in Forms : Salvar(n, f)
    \/ \E n \in SaveNames, f \in Forms : Excluir(n, f)
    \/ \E n \in DOMAIN saved_searches : Carregar(n)
    \/ Busca

NextColeta ==
    \/ \E opt \in mun_options : AdicionarMunicipio(opt, FormPadrao)
    \/ Busca

NextPaginas ==
    \/ \E opt \in mun_options : AdicionarMunicipio(opt, FormPadrao)
    \/ Busca
    \/ \E size \in PageSizes : MudarItensPorPagina(size)
    \/ \E clique \in Cliques : ClicarPagina(clique)

\* a session: every handler
Spec == Init /\ [][Next]_vars

\* a session that starts from a saved-search file this program did not write
SpecExterno == InitExterno /\ [][Next]_vars

\* the collection: selections built with "Adicionar município", over every upstream
SpecColeta == InitColeta /\ [][NextColeta]_vars

\* the collection over upstreams that answer the same notice for several municipalities
SpecComuns == InitComuns /\ [][NextColeta]_vars

\* one turn of the loop of consultar_pncp_por_municipio
Turno ==
    /\ pc = "coleta"
    /\ \E resp \in Respostas(signature.municipios[idx], pagina) : BuscarPagina(resp)

\* the collection as the script runs it: requests.get returns or raises within its
\* timeout of 30 s (line 225) and nothing else in the loop waits, so a turn of the loop
\* that can be taken is taken
SpecSemFim == InitSemFim /\ [][NextColeta]_vars /\ WF_vars(Turno)

\* searches and the pagination widgets over the stored results
SpecPaginas == InitPaginas /\ [][NextPaginas]_vars

\* the helper functions, each called once on an argument
SpecFuncoes == InitFuncoes /\ [][NextFuncoes]_vars

----------------------------------------------------------------------------
(* Properties *)

\* the requests of the current run for municipality c, in the order they were sent
PedidosDe(c) == SelectSeq(pedidos, LAMBDA r : r.municipio = c)

\* the records of the current run collected under municipality c
RegistrosDe(c) == SelectSeq(registros, LAMBDA r : r.municipio_codigo = c)

RECURSIVE ItensAte(_, _)
\* the items of pages 1..k of municipality c, as the upstream holds them
ItensAte(c, k) ==
    IF k = 0 THEN <<>>
    ELSE ItensAte(c, k - 1) \o ItensDoUpstream(c, k)

\* the municipalities whose collection has ended in the current run
Terminados ==
    { signature.municipios[i] : i \in 1..(IF pc = "fim" THEN idx ELSE idx - 1) }

\* C1: for one municipality the pages are requested in the order 1, 2, 3, ... with none
\* skipped or repeated, a page is requested only after a page of tam_pagina items, the
\* items of every page are appended in that order, and the loop stops at the first page
\* that is empty or shorter than tam_pagina: after three full pages and a fourth of
\* tam_pagina - 1 items the result is the items of pages 1-4 and there is no fifth request.
C1_PaginasEmOrdem ==
    pc \in {"coleta", "fim"} =>
      /\ \A i \in 1..Len(signature.municipios) :
           LET c == signature.municipios[i]
               ps == PedidosDe(c)
           IN /\ \A j \in 1..Len(ps) : ps[j].pagina = j
              /\ \A j \in 1..(Len(ps) - 1) : ps[j].tipo = "json" /\ ps[j].n = TamPagina
              /\ (c \in Terminados /\ c \notin falhas) =>
                   /\ ps # <<>>
                   /\ ps[Len(ps)].n < TamPagina
                   /\ RegistrosDe(c) = Registrar(<<>>, ItensAte(c, Len(ps)), c)
              /\ (/\ Len(ps) >= 4
                  /\ \A j \in 1..3 : ps[j].n = TamPagina
                  /\ ps[4].tipo = "json" /\ ps[4].n = TamPagina - 1) =>
                   /\ Len(ps) = 4
                   /\ RegistrosDe(c) = Registrar(<<>>, ItensAte(c, 4), c)
                   /\ Len(RegistrosDe(c)) = 4 * TamPagina - 1
      /\ pc = "coleta" =>
           LET c == signature.municipios[idx]
           IN /\ out = ItensAte(c, Len(PedidosDe(c)))
              /\ pagina = Len(PedidosDe(c)) + 1

\* C1 witness: a municipality was answered three full pages and a fourth page of
\* tam_pagina - 1 items, and its collection has ended
C1_Witness ==
    /\ pc = "fim"
    /\ \E i \in 1..Len(signature.municipios) :
         LET ps == PedidosDe(signature.municipios[i])
         IN /\ Len(ps) = 4
            /\ \A j \in 1..3 : ps[j].n = TamPagina
            /\ ps[4].n = TamPagina - 1
            /\ Len(RegistrosDe(signature.municipios[i])) = 4 * TamPagina - 1

C3_CodigosDistintos ==
    \A i, j \in 1..Len(Selecao) :
        Selecao[i].codigo_pncp = Selecao[j].codigo_pncp => i = j

\* C3 witness: "Adicionar município" was submitted for a municipality that is already in
\* a selection of two
C3_Witness ==
    /\ ultima.op = "adicionar"
    /\ ultima.nome = "ja_selecionado"
    /\ Len(Selecao) = 2

\* C4: _add_municipio_by_name on a selection of 25 entries leaves the selection as it
\* was: the same 25 entries in the same order, whatever name and UF are given.
C4_Rejeita26 ==
    [][(ultima'.op = "adicionar" /\ Len(Selecao) = LimiteMunicipios) =>
          /\ selected_municipios' = selected_municipios
          /\ heap'[selected_municipios'] = Selecao]_vars

\* C4 witness: an addition was refused at the cap
C4_Witness ==
    /\ ultima.op = "adicionar"
    /\ ultima.nome = "limite"
    /\ Len(Selecao) = LimiteMunicipios

\* C5: loading a saved search reproduces the keyword, status label, UF and list of
\* municipalities that were current when it was last saved under that name, whatever
\* happened in the session since.
C5_RoundTrip ==
    (pc = "idle" /\ ultima.op = "carregar" /\ ultima.nome \in DOMAIN salvo_em) =>
        LET s == salvo_em[ultima.nome]
        IN /\ sidebar_inputs.palavra_chave = s.palavra_chave
           /\ sidebar_inputs.status_label = s.status_label
           /\ sidebar_inputs.uf = s.uf
           /\ Selecao = s.municipios

\* C6: a step that is no save and no delete (an addition, a load, a step of a search)
\* leaves every stored saved search as it was, its list of municipalities included.
C6_SoSalvarOuExcluir ==
    [][ultima'.op \in {"adicionar", "carregar", "pesquisar", "buscar", "concluir"} =>
          /\ DOMAIN saved_searches' = DOMAIN saved_searches
          /\ \A n \in DOMAIN saved_searches :
               /\ saved_searches'[n] = saved_searches[n]
               /\ heap'[saved_searches'[n].municipios] = heap[saved_searches[n].municipios]]_vars

\* C7: when the collection of a municipality raises, on any page, that municipality
\* contributes no record, and every other selected municipality is queried and
\* contributes every item the upstream holds for it.
C7_FalhaIsolada ==
    (pc = "fim" /\ falhas # {}) =>
        \A i \in 1..Len(signature.municipios) :
            LET c == signature.municipios[i]
            IN /\ PedidosDe(c) # <<>>
               /\ IF c \in falhas
                  THEN RegistrosDe(c) = <<>>
                  ELSE RegistrosDe(c) =
                         Registrar(<<>>, [k \in 1..upstream[c].n |->
                                            ItemDe(Origem(c), ((k - 1) \div TamPagina) + 1,
                                                   ((k - 1) % TamPagina) + 1)], c)

\* C7 witness: of two selected municipalities the first failed after its first page and
\* the second contributed records
C7_Witness ==
    /\ pc = "fim"
    /\ Len(signature.municipios) = 2
    /\ falhas = {signature.municipios[1]}
    /\ Len(PedidosDe(signature.municipios[1])) >= 2
    /\ RegistrosDe(signature.municipios[2]) # <<>>

\* C8: at the end of a search every municipality whose collection failed is named by a
\* warning shown to the user.
C8_AvisoPorFalha ==
    (pc = "idle" /\ ultima.op = "concluir") =>
        \A c \in falhas : \E a \in avisos : a.tipo = "warning" /\ a.municipio = c

\* C9: a page answered with an empty body (HTTP 200 or 204) ends the loop like an empty
\* list of items: the municipality is not a failed one and keeps the items of the pages
\* before.
C9_CorpoVazioComoListaVazia ==
    pc \in {"coleta", "fim"} =>
        \A j \in 1..Len(pedidos) :
            pedidos[j].tipo = "corpo_vazio" =>
                /\ pedidos[j].municipio \notin falhas
                /\ RegistrosDe(pedidos[j].municipio) =
                     Registrar(<<>>, ItensAte(pedidos[j].municipio, pedidos[j].pagina - 1),
                               pedidos[j].municipio)

\* C10: "Pesquisar" with no municipality selected stops the run before the collection:
\* no request is sent, and results_df, results_signature and card_page stay as they were.
C10_SemMunicipioNaoBusca ==
    [][(ultima'.op = "pesquisar" /\ Selecao = <<>>) =>
          /\ pc' = "idle"
          /\ pedidos' = <<>>
          /\ results_df' = results_df
          /\ results_signature' = results_signature
          /\ card_page' = card_page]_vars

\* C10 witness: a search was refused for want of a municipality while results of an
\* earlier search are stored
C10_Witness ==
    /\ ultima.op = "pesquisar"
    /\ pc = "idle"
    /\ Selecao = <<>>
    /\ AvisoSemMunicipio \in avisos
    /\ results_df # <<>>
    /\ results_df[1] # <<>>

\* C11: the records of one collection run form a set: no two records of the result carry
\* the same upstream identifier, also when the upstream answers the same item for two
\* selected municipalities.
C11_RegistrosUnicos ==
    (pc = "idle" /\ ultima.op = "concluir") =>
        \A i, j \in 1..Len(results_df[1]) :
            results_df[1][i]._id = results_df[1][j]._id => i = j

\* C12: _items_from_json returns the payload itself when the payload is a list; for a
\* mapping it returns the value of the first key, in the order items, results, conteudo,
\* licitacoes, data, documents, documentos, content, resultados, whose value is a list,
\* passing over the keys whose value is no list; for every other payload, and for a
\* mapping without such a key, it returns the empty list.
C12_ItemsFromJson ==
    (entrada # <<>> /\ entrada.f = "_items_from_json" /\ saida # <<>>) =>
        LET js == entrada.js
            ordem == << "items", "results", "conteudo", "licitacoes", "data", "documents",
                        "documentos", "content", "resultados" >>
            comLista == { i \in 1..Len(ordem) :
                            ordem[i] \in DOMAIN js.d /\ js.d[ordem[i]].t = "list" }
        IN saida[1] =
             IF js.t = "list" THEN js.v
             ELSE IF js.t = "dict" /\ comLista # {}
                  THEN js.d[ordem[CHOOSE i \in comLista : \A j \in comLista : i <= j]].v
                  ELSE <<>>

\* C12 witness: a mapping whose "items" is no list and whose "data" and "resultados" are
\* two different lists gave the list under "data"
C12_Witness ==
    /\ entrada # <<>> /\ entrada.f = "_items_from_json"
    /\ entrada.js.t = "dict"
    /\ DOMAIN entrada.js.d = {"items", "data", "resultados"}
    /\ entrada.js.d["items"].t = "str"
    /\ entrada.js.d["data"] = JList(<<"y", "z">>)
    /\ entrada.js.d["resultados"] = JList(<<"x">>)
    /\ saida = << <<"y", "z">> >>

\* the templated URL of the texts cnpj, ano and seq
UrlDoModelo(cnpj, ano, seq) ==
    ORIGIN \o Barra \o SegApp \o Barra \o SegEditais \o Barra
           \o cnpj \o Barra \o ano \o Barra \o seq

\* _build_pncp_link returned at line 110, with the templated URL of the item's fields
DevolveuModelo ==
    /\ saida[2] = "modelo"
    /\ saida[1] = UrlDoModelo(StripTexto(entrada.item.orgao_cnpj), StripTexto(entrada.item.ano),
                              StripTexto(entrada.item.numero_sequencial))

\* _build_pncp_link returned at line 114, the raw-URL fallback
DevolveuFallback == saida[2] = "fallback"

\* C13 as stated: _build_pncp_link returns the templated URL exactly when the item has
\* an entity identifier of 14 digits, a year of 4 digits and a non-empty sequence.
C13_ModeloSeNumerico ==
    (entrada # <<>> /\ entrada.f = "_build_pncp_link" /\ saida # <<>>) =>
        LET cnpj == StripTexto(entrada.item.orgao_cnpj)
            ano == StripTexto(entrada.item.ano)
            seq == StripTexto(entrada.item.numero_sequencial)
            numerico == /\ Len(cnpj) = 14 /\ \A i \in 1..Len(cnpj) : cnpj[i] \in Digitos
                        /\ Len(ano) = 4 /\ \A i \in 1..Len(ano) : ano[i] \in Digitos
                        /\ seq # <<>>
        IN IF numerico THEN DevolveuModelo ELSE DevolveuFallback

\* C13: _build_pncp_link returns the templated URL exactly when, blanks at the ends
\* dropped, the entity identifier has 14 characters of any kind, the year is one or
\* more digits and the sequence is not empty; every other item gets the raw-URL fallback.
C13_ModeloSe14Caracteres ==
    (entrada # <<>> /\ entrada.f = "_build_pncp_link" /\ saida # <<>>) =>
        LET cnpj == StripTexto(entrada.item.orgao_cnpj)
            ano == StripTexto(entrada.item.ano)
            seq == StripTexto(entrada.item.numero_sequencial)
            completo == /\ Len(cnpj) = 14
                        /\ Len(ano) >= 1 /\ \A i \in 1..Len(ano) : ano[i] \in Digitos
                        /\ Len(seq) >= 1
        IN IF completo THEN DevolveuModelo ELSE DevolveuFallback

\* C13 witness: an identifier of 14 characters that are not all digits and a year of two
\* digits gave the templated URL, though a raw URL was there
C13_Witness ==
    /\ entrada # <<>> /\ entrada.f = "_build_pncp_link" /\ saida # <<>>
    /\ entrada.item.orgao_cnpj = SubSeq(Cnpj14, 1, 13) \o <<"X">>
    /\ entrada.item.ano = <<"2", "4">>
    /\ entrada.item.numero_sequencial = <<"7">>
    /\ entrada.item.item_url # <<>>
    /\ DevolveuModelo

\* C14: for an item that takes the fallback, _build_pncp_link returns the empty text
\* when the item has no raw URL, and else the raw URL made absolute, with every
\* "/app/compras/" and "/compras/" rewritten to "/app/editais/": the URL returned
\* contains no "/compras/".
C14_SemCompras ==
    (entrada # <<>> /\ entrada.f = "_build_pncp_link" /\ saida # <<>> /\ DevolveuFallback) =>
        LET raw == IF entrada.item.item_url # <<>> THEN entrada.item.item_url
                   ELSE entrada.item.url
        IN IF raw = <<>>
           THEN saida[1] = <<>>
           ELSE /\ SubSeq(saida[1], 1, 4) = <<"h", "t", "t", "p">>
                /\ ~ \E i \in 1..(Len(saida[1]) - 8) :
                       SubSeq(saida[1], i, i + 8) = <<"/", "c", "o", "m", "p", "r", "a", "s", "/">>

\* C15: the keyword filter keeps a record if and only if the keyword, compared without
\* regard to case as a literal text, occurs in the title followed by the description;
\* with no keyword every record is kept.
C15_FiltroLiteral ==
    (entrada # <<>> /\ entrada.f = "filtro" /\ saida # <<>>) =>
        LET q == entrada.q
            df == entrada.df
            OcorreEm(texto) ==
                \E k \in 0..(Len(texto) - Len(q)) :
                    \A j \in 1..Len(q) : LowerChar(q[j]) = LowerChar(texto[k + j])
        IN saida[1] =
             SelectSeqIdx(df, { i \in 1..Len(df) :
                                  q = <<>> \/ OcorreEm(df[i].Titulo \o df[i].Objeto) })

\* C16: every collection run finishes: once started, the page loops of all selected
\* municipalities come to their end, whatever the upstream answers, also when it answers
\* every page with tam_pagina items.
C16_Termina == (pc = "coleta") ~> (pc = "fim")

\* C17: in every render, after any sequence of searches, clicks of "Anterior" and
\* "Próxima" (top or bottom) and changes of "Itens por página", the page the results
\* are sliced at lies between 1 and the number of pages, and so does card_page after
\* the render; a search that has been completed leaves card_page = 1.
C17_PaginaNosLimites ==
    /\ mostrado # <<>> =>
          LET m == mostrado[1]
              paginas == CHOOSE n \in 1..(m.total_items + 1) :
                            /\ n * m.page_size_cards >= m.total_items
                            /\ n = 1 \/ (n - 1) * m.page_size_cards < m.total_items
          IN /\ m.page_size_cards = page_size_cards
             /\ m.total_items = Len(results_df[1])
             /\ m.start = (m.cabecalho - 1) * page_size_cards
             /\ 1 <= m.cabecalho /\ m.cabecalho <= paginas
             /\ 1 <= card_page /\ card_page <= paginas
    /\ (pc = "idle" /\ ultima.op = "concluir") => card_page = 1

\* C17 witness: with more results than one page holds, "Próxima" of the top bar has
\* brought the render to the last page
C17_Witness ==
    /\ ultima = [op |-> "pagina", nome |-> "next_top"]
    /\ mostrado # <<>>
    /\ mostrado[1].total_pages >= 2
    /\ mostrado[1].cabecalho = mostrado[1].total_pages
    /\ card_page = mostrado[1].total_pages

\* C18: in every render the page number of the header, the page number of the footer
\* and the slice of results shown are those of one page, also in the render that a
\* click of "Anterior" or "Próxima" of the bottom bar starts.
C18_MesmaPagina ==
    mostrado # <<>> =>
        /\ mostrado[1].cabecalho = mostrado[1].rodape
        /\ mostrado[1].start = (mostrado[1].rodape - 1) * mostrado[1].page_size_cards
        /\ mostrado[1].end = mostrado[1].start + mostrado[1].page_size_cards

====
